---- MODULE Spec2Model ----
(***************************************************************************)
(* Model of wandb-log-crawler (src/src/crawler.py): the timestamp parser,  *)
(* the incremental log store (store_lines) and the polling driver          *)
(* (execute / run).                                                        *)
(*                                                                         *)
(* Text is modelled as a sequence of tokens.  A token is a substring that  *)
(* the program never looks inside: a date ("2024-01-01"), a time           *)
(* ("10:00:00.000000"), a severity marker ("INFO"), a word, or one of the  *)
(* characters the program splits on or trims: "T", "|", " ", "\n".         *)
(***************************************************************************)
EXTENDS Integers, Sequences, FiniteSets, TLC

(***************************************************************************)
(* Bounds of the model.                                                    *)
(***************************************************************************)
MaxCalls == 2
MaxBatch == 2

(***************************************************************************)
(* Program constants and the universe of inputs.                           *)
(***************************************************************************)
levels == {"SUCCESS", "TRACE", "ERROR", "WARNING", "INFO", "DEBUG"}

Whitespace == {" ", "\n"}

\* Date and time substrings accepted by DATETIME_FORMAT, with their order.
DateVal == [d \in {"2024-01-01", "2024-01-02"} |->
              IF d = "2024-01-01" THEN 1 ELSE 2]
TimeVal == [t \in {"10:00:00.000000", "10:00:01.000000"} |->
              IF t = "10:00:00.000000" THEN 0 ELSE 1]
TicksPerDay == Cardinality(DOMAIN TimeVal)

ParseError == -1
NoDatetime == -2

Hotkeys == {"hk1"}

(***************************************************************************)
(* String operations of Python, on token sequences.                        *)
(***************************************************************************)
\* Index of the first occurrence of tok in s, 0 if there is none.
IndexOf(s, tok) ==
    IF \E i \in 1..Len(s) : s[i] = tok
    THEN CHOOSE i \in 1..Len(s) : s[i] = tok /\ \A j \in 1..(i-1) : s[j] # tok
    ELSE 0

\* s.split(sep)[0]
split_head(s, sep) ==
    IF IndexOf(s, sep) = 0 THEN s ELSE SubSeq(s, 1, IndexOf(s, sep) - 1)

\* ''.join(s.split(sep)[1:])
join_tail(s, sep) ==
    IF IndexOf(s, sep) = 0 THEN << >>
    ELSE SelectSeq(SubSeq(s, IndexOf(s, sep) + 1, Len(s)), LAMBDA t : t # sep)

\* s.strip()
RECURSIVE strip(_)
strip(s) ==
    IF s = << >> THEN s
    ELSE IF Head(s) \in Whitespace THEN strip(Tail(s))
    ELSE IF s[Len(s)] \in Whitespace THEN strip(SubSeq(s, 1, Len(s) - 1))
    ELSE s

\* datetime.strptime(s, DATETIME_FORMAT): the instant, or ParseError (ValueError).
strptime(s) ==
    IF /\ Len(s) = 3
       /\ s[1] \in DOMAIN DateVal
       /\ s[2] = "T"
       /\ s[3] \in DOMAIN TimeVal
    THEN DateVal[s[1]] * TicksPerDay + TimeVal[s[3]]
    ELSE ParseError

(***************************************************************************)
(* DatatimeHandler                                                         *)
(***************************************************************************)
\* Mutant of get_datetime_from_log: the whole line is parsed, without the
\* split at the first "|".
get_datetime_from_log_unsplit(log_line) == strptime(strip(log_line))

get_datetime_from_log(log_line) == strptime(strip(split_head(log_line, "|")))

get_datetime_from_ts_str(timestamp) == strptime(timestamp)

(***************************************************************************)
(* The store: one text per (hotkey, date string); a file that does not     *)
(* exist has exists = FALSE.                                               *)
(***************************************************************************)
\* The last line a "for line in f" loop yields ("" -> << >> for an empty file):
\* the text after the last "\n" that is not the final token, terminator kept.
RECURSIVE last_line_of(_)
last_line_of(text) ==
    IF text = << >> THEN << >>
    ELSE IF \E i \in 1..(Len(text) - 1) : text[i] = "\n"
    THEN last_line_of(SubSeq(text, IndexOf(text, "\n") + 1, Len(text)))
    ELSE text

\* The lines of a text, each with its terminator (the last may lack one).
RECURSIVE lines_of(_)
lines_of(text) ==
    IF text = << >> THEN << >>
    ELSE IF IndexOf(text, "\n") = 0 THEN << text >>
    ELSE << SubSeq(text, 1, IndexOf(text, "\n")) >>
           \o lines_of(SubSeq(text, IndexOf(text, "\n") + 1, Len(text)))

\* Mutant of get_last_store_line_datetime: the loop stops at the first line
\* of the file.
get_first_store_line_datetime(text) ==
    IF lines_of(text) = << >> THEN NoDatetime
    ELSE strptime(strip(split_head(lines_of(text)[1], "|")))

\* get_last_store_line_datetime: NoDatetime (None) for a file without lines,
\* ParseError when the last line does not start with a timestamp.
get_last_store_line_datetime(text) ==
    IF last_line_of(text) = << >> THEN NoDatetime
    ELSE get_datetime_from_log(last_line_of(text))

NoFile == [exists |-> FALSE, text |-> << >>]

\* Mutant of ensure_file_exist: the file is opened with "w" without the
\* existence test, which truncates a file that is already there.
ensure_file_exist_truncating(fs, hotkey, date) ==
    [fs EXCEPT ![<<hotkey, date>>] = [exists |-> TRUE, text |-> << >>]]

\* ensure_file_exist: creates an empty file when there is none.
ensure_file_exist(fs, hotkey, date) ==
    IF fs[<<hotkey, date>>].exists THEN fs
    ELSE [fs EXCEPT ![<<hotkey, date>>] = [exists |-> TRUE, text |-> << >>]]

(***************************************************************************)
(* store_lines                                                             *)
(***************************************************************************)
\* Lines 116-117: a content that contains a level anywhere is replaced by
\* what follows its first "|", with every further "|" removed.
normalize(content) ==
    IF \E i \in 1..Len(content) : content[i] \in levels
    THEN join_tail(content, "|")
    ELSE content

\* Line 119: timestamp.split('T')[0]
date_string_of(timestamp) == split_head(timestamp, "T")

\* Line 138: f"{ts} | {content}\n"
format_line(ts, content) == ts \o << " ", "|", " " >> \o content \o << "\n" >>

\* Lines 112-122: the keys of file_lines_map in insertion order.
RECURSIVE date_order(_)
date_order(lines) ==
    IF lines = << >> THEN << >>
    ELSE LET rest == date_order(SubSeq(lines, 1, Len(lines) - 1))
             d    == date_string_of(lines[Len(lines)][1])
         IN  IF \E i \in 1..Len(rest) : rest[i] = d THEN rest ELSE Append(rest, d)

\* Lines 112-122: file_lines_map[date]: the (timestamp, normalized content)
\* pairs of the date, in received order.
RECURSIVE normalized(_)
normalized(lines) ==
    IF lines = << >> THEN << >>
    ELSE << << Head(lines)[1], normalize(Head(lines)[2]) >> >> \o normalized(Tail(lines))

\* Mutant of partition: every line of the batch goes to every date.
partition_unfiltered(lines, date) == normalized(lines)

partition(lines, date) ==
    SelectSeq(normalized(lines), LAMBDA l : date_string_of(l[1]) = date)

\* Mutant of skipped: "<" for "<=", a line at the high-water mark is kept.
skipped_strictly_older(last_line_datetime, ts_datetime) ==
    last_line_datetime # NoDatetime /\ ts_datetime < last_line_datetime

\* Line 136: the line is skipped.
skipped(last_line_datetime, ts_datetime) ==
    last_line_datetime # NoDatetime /\ ts_datetime <= last_line_datetime

\* Mutant of append_lines: "break" for "continue", the loop ends at the first
\* line that is skipped.
RECURSIVE append_lines_breaking(_, _, _)
append_lines_breaking(text, last_line_datetime, content_lines) ==
    IF content_lines = << >> THEN [text |-> text, raised |-> FALSE]
    ELSE LET ts          == Head(content_lines)[1]
             content     == Head(content_lines)[2]
             ts_datetime == strptime(ts)
         IN  IF ts_datetime = ParseError THEN [text |-> text, raised |-> TRUE]
             ELSE IF last_line_datetime # NoDatetime /\ ts_datetime <= last_line_datetime
             THEN [text |-> text, raised |-> FALSE]
             ELSE append_lines_breaking(text \o format_line(ts, content),
                                        last_line_datetime, Tail(content_lines))

\* Lines 134-139: the loop over one partition.  The high-water mark is read
\* once, before the loop.  The result is the text of the file and whether the
\* loop raised (a timestamp of the batch that does not parse).
RECURSIVE append_lines(_, _, _)
append_lines(text, last_line_datetime, content_lines) ==
    IF content_lines = << >> THEN [text |-> text, raised |-> FALSE]
    ELSE LET ts          == Head(content_lines)[1]
             content     == Head(content_lines)[2]
             ts_datetime == get_datetime_from_ts_str(ts)
         IN  IF ts_datetime = ParseError THEN [text |-> text, raised |-> TRUE]
             ELSE IF skipped(last_line_datetime, ts_datetime)
             THEN append_lines(text, last_line_datetime, Tail(content_lines))
             ELSE append_lines(text \o format_line(ts, content),
                               last_line_datetime, Tail(content_lines))

\* Lines 124-140: the loop over the dates of the batch, in insertion order.
\* An exception leaves the loop: the dates after it are not processed.
RECURSIVE store_dates(_, _, _, _)
store_dates(fs, hotkey, lines, dates) ==
    IF dates = << >> THEN [files |-> fs, raised |-> FALSE]
    ELSE LET date    == Head(dates)
             key     == << hotkey, date >>
             ensured == ensure_file_exist(fs, hotkey, date)
             last_line_datetime == get_last_store_line_datetime(ensured[key].text)
             res     == append_lines(ensured[key].text, last_line_datetime,
                                     partition(lines, date))
             written == [ensured EXCEPT ![key].text = res.text]
         IN  IF last_line_datetime = ParseError
             THEN [files |-> ensured, raised |-> TRUE]
             ELSE IF res.raised THEN [files |-> written, raised |-> TRUE]
             ELSE store_dates(written, hotkey, lines, Tail(dates))

\* Mutant of store_lines: the folder is a fixed one, whatever the owner.
store_lines_one_folder(fs, hotkey, lines) ==
    store_dates(fs, "hk1", lines, date_order(lines))

store_lines(fs, hotkey, lines) == store_dates(fs, hotkey, lines, date_order(lines))

\* store_logs: each fetched edge becomes a (timestamp, line) pair.
get_log_ts_and_content(log) == << log.node.timestamp, log.node.line >>

store_logs(fs, hotkey, logs) ==
    store_lines(fs, hotkey, [k \in 1..Len(logs) |-> get_log_ts_and_content(logs[k])])

(***************************************************************************)
(* Inputs.                                                                 *)
(***************************************************************************)
Ts(d, t) == << d, "T", t >>

ValidTimestamps == { Ts(d, t) : d \in DOMAIN DateVal, t \in DOMAIN TimeVal }

\* A timestamp whose date substring is well formed and whose time is not.
BadTimestamp == << "2024-01-01", "T", "nope" >>

Timestamps == ValidTimestamps \cup { BadTimestamp }

DateStrings == { date_string_of(ts) : ts \in Timestamps }

\* The lines given to the store interface: two dates, two instants of one
\* date, a content with a level, and a timestamp that does not parse.
Lines ==
    { << Ts("2024-01-01", "10:00:00.000000"), << "world" >> >>,
      << Ts("2024-01-01", "10:00:01.000000"), << "INFO", " ", "|", " ", "hello" >> >>,
      << Ts("2024-01-02", "10:00:00.000000"), << "world" >> >>,
      << BadTimestamp, << "world" >> >> }

RECURSIVE SeqsUpTo(_, _)
SeqsUpTo(S, n) ==
    IF n = 0 THEN { << >> }
    ELSE LET shorter == SeqsUpTo(S, n - 1)
         IN  shorter \cup { Append(s, x) : s \in { t \in shorter : Len(t) = n - 1 }, x \in S }

Batches == SeqsUpTo(Lines, MaxBatch)

\* Jobs of the remote service: an id and a configuration with or without a
\* "hotkey" entry.
RunIds == {"r1", "r2"}
NoHotkey == "<absent>"
Runs == { [id |-> "r1", hotkey |-> "hk1"],
          [id |-> "r2", hotkey |-> "hk1"],
          [id |-> "r2", hotkey |-> NoHotkey] }

AllHotkeys == Hotkeys \cup RunIds

\* Mutant of hotkey_of: a fixed default for the id of the job.
hotkey_of_fixed_default(run) == IF run.hotkey = NoHotkey THEN "hk1" ELSE run.hotkey

\* Line 153: json_config.get("hotkey", run.id)
hotkey_of(run) == IF run.hotkey = NoHotkey THEN run.id ELSE run.hotkey

FileKeys == AllHotkeys \X DateStrings

(***************************************************************************)
(* State.                                                                  *)
(***************************************************************************)
VARIABLES
    files,     \* the store: file key -> [exists, text]
    last,      \* the most recent operation on the store, with the store before it
    ncalls,    \* number of calls made through the store interface
    pc,        \* the driver: "idle", "listing" or "processing"
    runs,      \* the jobs listed in the current cycle
    next_run,  \* index in runs of the next job to process
    attempts,  \* the jobs attempted in the current cycle, with their outcome
    written,   \* <<job id, file key>> for each file changed for a job in the cycle
    cycle_log, \* what run/execute logged at the end of the last cycle
    calls,     \* the batches StoreBatch passed to store_lines, in call order
    remote     \* the remote job: lines produced, and the lines failed fetches missed

vars == << files, last, ncalls, pc, runs, next_run, attempts, written, cycle_log,
           calls, remote >>

store_vars == << files, last, ncalls >>
driver_vars == << pc, runs, next_run, attempts, written, cycle_log >>
history_vars == << calls, remote >>

NoOp == [op |-> "none", hotkey |-> "", date |-> << >>, lines |-> << >>,
         before |-> [k \in FileKeys |-> NoFile], raised |-> FALSE]

Init ==
    /\ files = [k \in FileKeys |-> NoFile]
    /\ last = NoOp
    /\ ncalls = 0
    /\ pc = "idle"
    /\ runs = << >>
    /\ next_run = 1
    /\ attempts = << >>
    /\ written = {}
    /\ cycle_log = "none"
    /\ calls = << >>
    /\ remote = [produced |-> 0, missed |-> {}, recovered |-> {}]

(***************************************************************************)
(* The store interface.                                                    *)
(***************************************************************************)
StoreLines(hotkey, lines) ==
    /\ ncalls < MaxCalls
    /\ LET res == store_lines(files, hotkey, lines)
       IN  /\ files' = res.files
           /\ last' = [op |-> "store_lines", hotkey |-> hotkey, date |-> << >>,
                       lines |-> lines, before |-> files, raised |-> res.raised]
    /\ ncalls' = ncalls + 1
    /\ UNCHANGED << driver_vars, history_vars >>

EnsureFileExist(hotkey, date) ==
    /\ ncalls < MaxCalls
    /\ files' = ensure_file_exist(files, hotkey, date)
    /\ last' = [op |-> "ensure_file_exist", hotkey |-> hotkey, date |-> date,
                lines |-> << >>, before |-> files, raised |-> FALSE]
    /\ ncalls' = ncalls + 1
    /\ UNCHANGED << driver_vars, history_vars >>

Next ==
    \/ \E hotkey \in Hotkeys, lines \in Batches : StoreLines(hotkey, lines)
    \/ \E hotkey \in Hotkeys, date \in DateStrings : EnsureFileExist(hotkey, date)

Spec == Init /\ [][Next]_vars

(***************************************************************************)
(* The store interface with two owners: store_lines calls for the folders  *)
(* of a configured hotkey and of a job id, with lines of two dates and a   *)
(* timestamp that does not parse.                                          *)
(***************************************************************************)
FrameOwners == {"hk1", "r2"}

FrameLines ==
    { << Ts("2024-01-01", "10:00:00.000000"), << "world" >> >>,
      << Ts("2024-01-02", "10:00:00.000000"), << "world" >> >>,
      << BadTimestamp, << "world" >> >> }

FrameBatches == SeqsUpTo(FrameLines, MaxBatch)

NextFrame ==
    \E hotkey \in FrameOwners, lines \in FrameBatches : StoreLines(hotkey, lines)

SpecFrame == Init /\ [][NextFrame]_vars

(***************************************************************************)
(* The normalization of contents (lines 116-117): one call of store_lines  *)
(* on the empty store, for every content up to MaxContentLen tokens.       *)
(***************************************************************************)
MaxContentLen == 5

ContentTokens == {"INFO", "|", " ", "hello", "\n"}

ContentUniverse == SeqsUpTo(ContentTokens, MaxContentLen)

StoreContent(content, rest) ==
    /\ ncalls = 0
    /\ LET lines == << << Ts("2024-01-01", "10:00:00.000000"), content >> >> \o rest
           res   == store_lines(files, "hk1", lines)
       IN  /\ files' = res.files
           /\ last' = [op |-> "store_lines", hotkey |-> "hk1", date |-> << >>,
                       lines |-> lines, before |-> files, raised |-> res.raised]
    /\ ncalls' = ncalls + 1
    /\ UNCHANGED << driver_vars, history_vars >>

NextContent ==
    \E content \in ContentUniverse,
       rest \in { << >>, << << Ts("2024-01-01", "10:00:01.000000"), << "world" >> >> >> } :
        StoreContent(content, rest)

SpecContent == Init /\ [][NextContent]_vars

(***************************************************************************)
(* The polling driver: run and execute.                                    *)
(***************************************************************************)
\* What the remote service holds for a job: lines with increasing timestamps.
Stream(id) ==
    << [node |-> [timestamp |-> Ts("2024-01-01", "10:00:00.000000"),
                  line |-> << id >>]],
       [node |-> [timestamp |-> Ts("2024-01-01", "10:00:01.000000"),
                  line |-> << "INFO", " ", "|", " ", id >>]] >>

\* What get_logs can return for a job: a window of its stream, or a
\* response with a timestamp that is not in the expected format.
Responses(id) ==
    { SubSeq(Stream(id), lo, hi) : lo \in 1..Len(Stream(id)), hi \in 0..Len(Stream(id)) }
        \cup { << [node |-> [timestamp |-> BadTimestamp, line |-> << id >>]] >> }

\* What get_runs can return: jobs with distinct ids.
RunLists ==
    { rs \in SeqsUpTo(Runs, Cardinality(RunIds)) :
        \A i, j \in 1..Len(rs) : i # j => rs[i].id # rs[j].id }

Changed(before, after) == { k \in FileKeys : before[k] # after[k] }

\* run, lines 162-164: the sleep is over (or the driver has just started)
\* and execute is called.
StartCycle ==
    /\ pc = "idle"
    /\ pc' = "listing"
    /\ runs' = << >>
    /\ next_run' = 1
    /\ attempts' = << >>
    /\ written' = {}
    /\ UNCHANGED << cycle_log, store_vars, history_vars >>

\* execute, line 149: get_runs returns the running jobs.
GetRuns(rs) ==
    /\ pc = "listing"
    /\ pc' = "processing"
    /\ runs' = rs
    /\ UNCHANGED << next_run, attempts, written, cycle_log, store_vars, history_vars >>

\* Mutant of GetRunsFails: run has no try/except, the exception ends the process.
GetRunsFailsAndExits ==
    /\ pc = "listing"
    /\ pc' = "exited"
    /\ cycle_log' = "Failed to execute"
    /\ UNCHANGED << runs, next_run, attempts, written, store_vars, history_vars >>

\* execute, line 149: get_runs raises; run catches it (lines 165-168) and sleeps.
GetRunsFails ==
    /\ pc = "listing"
    /\ pc' = "idle"
    /\ cycle_log' = "Failed to execute"
    /\ UNCHANGED << runs, next_run, attempts, written, store_vars, history_vars >>

\* Mutant of FetchFails: the loop has no try/except, the exception of get_logs
\* leaves execute and is caught by run.
FetchFailsAndLeavesLoop ==
    /\ pc = "processing"
    /\ next_run <= Len(runs)
    /\ attempts' = Append(attempts, [id |-> runs[next_run].id, outcome |-> "fetch_failed"])
    /\ next_run' = next_run + 1
    /\ pc' = "idle"
    /\ cycle_log' = "Failed to execute"
    /\ UNCHANGED << runs, written, store_vars, history_vars >>

\* execute, lines 150-158: get_logs raises for the next job; the exception
\* is caught and the loop goes on.
FetchFails ==
    /\ pc = "processing"
    /\ next_run <= Len(runs)
    /\ attempts' = Append(attempts, [id |-> runs[next_run].id, outcome |-> "fetch_failed"])
    /\ next_run' = next_run + 1
    /\ UNCHANGED << pc, runs, written, cycle_log, store_vars, history_vars >>

\* execute, lines 150-158: get_logs returns and store_logs merges the lines
\* into the files of the job's hotkey; an exception of store_logs is caught.
FetchAndStore ==
    /\ pc = "processing"
    /\ next_run <= Len(runs)
    /\ \E logs \in Responses(runs[next_run].id) :
       LET run    == runs[next_run]
           hotkey == hotkey_of(run)
           res    == store_logs(files, hotkey, logs)
       IN  /\ files' = res.files
           /\ last' = [op |-> "store_lines", hotkey |-> hotkey, date |-> << >>,
                       lines |-> [k \in 1..Len(logs) |-> get_log_ts_and_content(logs[k])],
                       before |-> files, raised |-> res.raised]
           /\ attempts' = Append(attempts,
                  [id |-> run.id,
                   outcome |-> IF res.raised THEN "store_failed" ELSE "stored"])
           /\ written' = written \cup { << run.id, k >> : k \in Changed(files, res.files) }
    /\ next_run' = next_run + 1
    /\ UNCHANGED << pc, runs, ncalls, cycle_log, history_vars >>

\* execute, line 159, and run, lines 167-168: every job was attempted; sleep.
FinishCycle ==
    /\ pc = "processing"
    /\ next_run > Len(runs)
    /\ pc' = "idle"
    /\ cycle_log' = "Crawling finished"
    /\ UNCHANGED << runs, next_run, attempts, written, store_vars, history_vars >>

NextDriver ==
    \/ StartCycle
    \/ \E rs \in RunLists : GetRuns(rs)
    \/ GetRunsFails
    \/ FetchFails
    \/ FetchAndStore
    \/ FinishCycle

SpecDriver == Init /\ [][NextDriver]_vars

\* The driver is one sequential thread: as long as the remote calls and the
\* sleep return, it takes its next step.
FairSpecDriver == SpecDriver /\ WF_vars(NextDriver)

(***************************************************************************)
(* Successive polls of one job: the batches are drawn from the lines of    *)
(* one remote stream, and the sequence of batches is kept.                 *)
(***************************************************************************)
\* What the remote service holds for the job once it has produced all its
\* lines: strictly increasing timestamps over two dates.
RemoteStream ==
    << [node |-> [timestamp |-> Ts("2024-01-01", "10:00:00.000000"),
                  line |-> << "hello" >>]],
       [node |-> [timestamp |-> Ts("2024-01-01", "10:00:01.000000"),
                  line |-> << "INFO", " ", "|", " ", "hello" >>]],
       [node |-> [timestamp |-> Ts("2024-01-02", "10:00:00.000000"),
                  line |-> << "hello" >>]] >>

StreamLines == [i \in 1..Len(RemoteStream) |-> get_log_ts_and_content(RemoteStream[i])]

StreamBatches == SeqsUpTo({ StreamLines[i] : i \in 1..Len(StreamLines) }, MaxBatch)

StoreBatch(lines) ==
    /\ ncalls < MaxCalls
    /\ LET res == store_lines(files, "hk1", lines)
       IN  /\ files' = res.files
           /\ last' = [op |-> "store_lines", hotkey |-> "hk1", date |-> << >>,
                       lines |-> lines, before |-> files, raised |-> res.raised]
    /\ ncalls' = ncalls + 1
    /\ calls' = Append(calls, lines)
    /\ UNCHANGED << driver_vars, remote >>

NextWindows == \E lines \in StreamBatches : StoreBatch(lines)

SpecWindows == Init /\ [][NextWindows]_vars

(***************************************************************************)
(* Vocabulary of the properties.                                           *)
(***************************************************************************)
IsPrefix(a, b) == Len(a) <= Len(b) /\ SubSeq(b, 1, Len(a)) = a

\* The instant a stored line starts with.
InstantOfLine(line) == strptime(strip(split_head(line, "|")))

\* The instants of the lines of a text.
Instants(text) == [i \in 1..Len(lines_of(text)) |-> InstantOfLine(lines_of(text)[i])]

NonDecreasing(s) == \A i, j \in 1..Len(s) : i < j => s[i] <= s[j]

\* The high-water mark of a text: the instant of its last line.
HighWaterMark(text) ==
    IF lines_of(text) = << >> THEN NoDatetime
    ELSE InstantOfLine(lines_of(text)[Len(lines_of(text))])

RECURSIVE FormatAll(_)
FormatAll(ls) ==
    IF ls = << >> THEN << >>
    ELSE format_line(Head(ls)[1], Head(ls)[2]) \o FormatAll(Tail(ls))

IsStoreCall == last.op = "store_lines"

\* The batch of the last call with its contents normalized, and its dates.
LastBatch == [i \in 1..Len(last.lines) |->
                << last.lines[i][1], normalize(last.lines[i][2]) >>]

DateOf(line) == split_head(line[1], "T")

LastDates == { DateOf(LastBatch[i]) : i \in 1..Len(LastBatch) }

\* What the last operation appended to a file.
Appended(k) ==
    SubSeq(files[k].text, Len(last.before[k].text) + 1, Len(files[k].text))

\* A batch line is beyond the high-water mark T.
Beyond(line, T) == T = NoDatetime \/ strptime(line[1]) > T

(***************************************************************************)
(* C1: after any sequence of store_lines calls from the empty store, the   *)
(* lines of every log file are in non-decreasing timestamp order.          *)
(* Violated: a batch that is itself out of order is appended as received.  *)
(***************************************************************************)
C1_FilesInTimestampOrder ==
    \A k \in FileKeys : NonDecreasing(Instants(files[k].text))

(***************************************************************************)
(* C2: store_lines called twice in a row with the identical batch for the  *)
(* same owner appends nothing in the second call.                          *)
(* Violated: after an out-of-order batch the last line is not the newest,  *)
(* so the second call appends the newer lines again (see C1).              *)
(***************************************************************************)
C2_SecondIdenticalCallAppendsNothing ==
    [][ ( /\ ncalls' = ncalls + 1
          /\ last.op = "store_lines"
          /\ last'.op = "store_lines"
          /\ last'.hotkey = last.hotkey
          /\ last'.lines = last.lines ) => files' = files ]_vars

(***************************************************************************)
(* C3: a store_lines call that returns normally appends to the file of     *)
(* each date of the batch exactly the lines of that date whose timestamp   *)
(* is strictly greater than the timestamp T of the file's last line, in    *)
(* their order in the batch, and skips the lines at or before T; a file    *)
(* without lines has no high-water mark and receives every line.           *)
(***************************************************************************)
C3_AppendsExactlyTheNewerLines ==
    (IsStoreCall /\ ~last.raised) =>
        \A D \in LastDates :
            LET k == << last.hotkey, D >>
                T == HighWaterMark(last.before[k].text)
                newer == SelectSeq(LastBatch, LAMBDA l : DateOf(l) = D /\ Beyond(l, T))
            IN  files[k].text = last.before[k].text \o FormatAll(newer)

C3_Witness ==
    /\ IsStoreCall
    /\ ~last.raised
    /\ \E D \in LastDates :
         LET k == << last.hotkey, D >>
             T == HighWaterMark(last.before[k].text)
         IN  /\ T >= 0
             /\ \E i, j \in 1..Len(LastBatch) :
                   /\ DateOf(LastBatch[i]) = D /\ ~Beyond(LastBatch[i], T)
                   /\ DateOf(LastBatch[j]) = D /\ Beyond(LastBatch[j], T)
             /\ Appended(k) # << >>

(***************************************************************************)
(* C4: the store is append-only: across every store_lines call, whether it *)
(* returns or raises, and every ensure_file_exist call, each file's text   *)
(* before the call is a prefix of its text after it, and a file that       *)
(* existed still exists.                                                   *)
(***************************************************************************)
C4_AppendOnly ==
    \A k \in FileKeys :
        /\ IsPrefix(last.before[k].text, files[k].text)
        /\ last.before[k].exists => files[k].exists

C4_Witness ==
    /\ IsStoreCall
    /\ last.raised
    /\ \E k \in FileKeys :
         /\ last.before[k].text # << >>
         /\ files[k].text # last.before[k].text

(***************************************************************************)
(* C5: store_lines partitions a batch by the date substring of each        *)
(* timestamp: every line appended to the file of date D is a line of the   *)
(* batch whose timestamp has the date D, appended under the owner of the   *)
(* call, and a batch of two dates that is stored without error leaves two  *)
(* distinct files, one per date.                                           *)
(***************************************************************************)
C5_PartitionedByDate ==
    IsStoreCall =>
        /\ \A k \in FileKeys :
              \A i \in 1..Len(lines_of(Appended(k))) :
                  /\ k[1] = last.hotkey
                  /\ \E j \in 1..Len(LastBatch) :
                        /\ DateOf(LastBatch[j]) = k[2]
                        /\ lines_of(Appended(k))[i]
                              = format_line(LastBatch[j][1], LastBatch[j][2])
        /\ ~last.raised =>
              \A D \in LastDates : files[<< last.hotkey, D >>].exists

C5_Witness ==
    /\ IsStoreCall
    /\ ~last.raised
    /\ \E D1, D2 \in LastDates :
         /\ D1 # D2
         /\ Appended(<< last.hotkey, D1 >>) # << >>
         /\ Appended(<< last.hotkey, D2 >>) # << >>

(***************************************************************************)
(* C6: a content whose segment before the first "|" carries a severity     *)
(* marker is stored as exactly the content that follows the first "|"; a   *)
(* content without any marker is stored unchanged.                         *)
(* Violated: line 117 joins the segments after the first "|" with the      *)
(* empty string, so every further "|" of the content is lost.              *)
(***************************************************************************)
HasMarkerPrefix(content) ==
    /\ IndexOf(content, "|") > 0
    /\ \E i \in 1..(IndexOf(content, "|") - 1) : content[i] \in levels

HasNoMarker(content) == \A i \in 1..Len(content) : content[i] \notin levels

AfterFirstPipe(content) == SubSeq(content, IndexOf(content, "|") + 1, Len(content))

ExpectedContent(content) ==
    IF HasMarkerPrefix(content) THEN AfterFirstPipe(content) ELSE content

C6_MarkerSegmentStripped ==
    ( /\ IsStoreCall
      /\ \A i \in 1..Len(last.lines) :
            HasMarkerPrefix(last.lines[i][2]) \/ HasNoMarker(last.lines[i][2]) )
    => files[<< "hk1", << "2024-01-01" >> >>].text
         = FormatAll([i \in 1..Len(last.lines) |->
                        << last.lines[i][1], ExpectedContent(last.lines[i][2]) >>])

\* The example of the specification: the batch
\* [(10:00:00, "INFO | hello"), (10:00:01, "world")] on the empty store.
C6_Example ==
    last.lines = << << Ts("2024-01-01", "10:00:00.000000"),
                       << "INFO", " ", "|", " ", "hello" >> >>,
                    << Ts("2024-01-01", "10:00:01.000000"), << "world" >> >> >>
    => lines_of(files[<< "hk1", << "2024-01-01" >> >>].text)
         = << << "2024-01-01", "T", "10:00:00.000000", " ", "|", " ", " ", "hello", "\n" >>,
              << "2024-01-01", "T", "10:00:01.000000", " ", "|", " ", "world", "\n" >> >>

(***************************************************************************)
(* C7: within one cycle the jobs of the listing are attempted one after    *)
(* the other, each exactly once, whatever the outcome of the jobs before:  *)
(* the attempts so far are the first jobs of the listing, in order, and    *)
(* when the driver is idle again every listed job has been attempted.      *)
(***************************************************************************)
C7_EveryJobAttemptedOnce ==
    /\ Len(attempts) <= Len(runs)
    /\ \A i \in 1..Len(attempts) : attempts[i].id = runs[i].id
    /\ pc = "processing" => Len(attempts) = next_run - 1
    /\ pc = "idle" => Len(attempts) = Len(runs)

C7_Witness ==
    /\ pc = "idle"
    /\ Len(attempts) = 2
    /\ attempts[1].outcome \in {"fetch_failed", "store_failed"}
    /\ attempts[2].outcome = "stored"
    /\ \E w \in written : w[1] = runs[2].id

(***************************************************************************)
(* C8: the driver never stops: a cycle that fails (the listing included)   *)
(* or completes leads to Idle, and from Idle another cycle is started, so  *)
(* the driver is idle infinitely often and starts a cycle infinitely       *)
(* often.                                                                  *)
(***************************************************************************)
C8_CyclesForever == ([]<>(pc = "idle")) /\ ([]<>(pc = "listing"))

C8_Witness == pc = "listing" /\ cycle_log = "Failed to execute"

(***************************************************************************)
(* C9, as stated: no log file is changed on behalf of two different jobs   *)
(* of one cycle.                                                           *)
(* Violated: two jobs whose configurations name the same hotkey.           *)
(***************************************************************************)
C9_JobsWriteDisjointFiles ==
    \A w1, w2 \in written : w1[2] = w2[2] => w1[1] = w2[1]

(***************************************************************************)
(* C9, amended: jobs of one cycle with different owner keys (the "hotkey"  *)
(* of the configuration, the job id when there is none) change disjoint    *)
(* sets of log files.                                                      *)
(***************************************************************************)
ListedRun(id) == CHOOSE r \in { runs[i] : i \in 1..Len(runs) } : r.id = id

OwnerKey(id) ==
    IF ListedRun(id).hotkey = NoHotkey THEN id ELSE ListedRun(id).hotkey

C9_DistinctOwnersWriteDisjointFiles ==
    \A w1, w2 \in written : w1[2] = w2[2] => OwnerKey(w1[1]) = OwnerKey(w2[1])

C9_Witness ==
    \E w1, w2 \in written : w1[1] # w2[1] /\ OwnerKey(w1[1]) # OwnerKey(w2[1])

(***************************************************************************)
(* C10, as stated: after a store_lines call that returns normally, every   *)
(* line of the batch is a line of the owner's file for its date.           *)
(* Violated: a line that was never stored and whose timestamp is at or     *)
(* before the file's high-water mark is skipped.                           *)
(***************************************************************************)
LinesIn(text) == { lines_of(text)[i] : i \in 1..Len(lines_of(text)) }

Present(line) ==
    format_line(line[1], line[2]) \in LinesIn(files[<< last.hotkey, DateOf(line) >>].text)

MarkBefore(line) == HighWaterMark(last.before[<< last.hotkey, DateOf(line) >>].text)

C10_EveryBatchLinePresent ==
    (IsStoreCall /\ ~last.raised) =>
        \A i \in 1..Len(LastBatch) : Present(LastBatch[i])

(***************************************************************************)
(* C10, amended: after a store_lines call that returns normally, every     *)
(* line of the batch whose timestamp is strictly greater than the          *)
(* high-water mark its file had when the call started (every line, when    *)
(* the file had no lines) is a line of the owner's file for its date.      *)
(***************************************************************************)
C10_LinesBeyondMarkPresent ==
    (IsStoreCall /\ ~last.raised) =>
        \A i \in 1..Len(LastBatch) :
            Beyond(LastBatch[i], MarkBefore(LastBatch[i])) => Present(LastBatch[i])

C10_Witness ==
    /\ IsStoreCall
    /\ ~last.raised
    /\ \E i \in 1..Len(LastBatch) :
         /\ MarkBefore(LastBatch[i]) >= 0
         /\ strptime(LastBatch[i][1]) > MarkBefore(LastBatch[i])
         /\ Present(LastBatch[i])

(***************************************************************************)
(* C11: every line of every log file has the form "<timestamp> | <content>"*)
(* with its line terminator, the text before its first "|" trims to a      *)
(* timestamp the parser accepts, and so reading the high-water mark of a   *)
(* file never fails.                                                       *)
(* Violated: a content that holds a line terminator is written as it is,   *)
(* and what follows the terminator becomes a line without a timestamp.     *)
(***************************************************************************)
WellFormedLine(line) ==
    /\ line # << >>
    /\ line[Len(line)] = "\n"
    /\ IndexOf(line, "|") > 0
    /\ InstantOfLine(line) >= 0

C11_EveryStoredLineWellFormed ==
    \A k \in FileKeys :
        /\ \A i \in 1..Len(lines_of(files[k].text)) :
              WellFormedLine(lines_of(files[k].text)[i])
        /\ get_last_store_line_datetime(files[k].text) # ParseError

(***************************************************************************)
(* C12, as stated: a log file exists only if at least one line has been    *)
(* written to it; the store never holds a file that is empty.              *)
(* Violated: store_lines creates the file before it parses the timestamps  *)
(* of the partition; when the first of them does not parse the call raises *)
(* and the file stays empty.                                               *)
(***************************************************************************)
C12_NoEmptyFile ==
    \A k \in FileKeys : files[k].exists => files[k].text # << >>

(***************************************************************************)
(* C13: a line that was in a date file when a store_lines call started is  *)
(* not appended to that file by the call.                                  *)
(* Violated: after an out-of-order batch the last line of the file is not  *)
(* its newest one, and a newer stored line that comes again is beyond the  *)
(* high-water mark (see C1).                                               *)
(***************************************************************************)
C13_NoStoredLineAppendedAgain ==
    IsStoreCall =>
        \A k \in FileKeys :
            \A i \in 1..Len(lines_of(Appended(k))) :
                lines_of(Appended(k))[i] \notin LinesIn(last.before[k].text)

(***************************************************************************)
(* C15: what a store_lines call does to the file of date D depends only on *)
(* the lines of date D and on that file: it is what the call would have    *)
(* done with the lines of date D alone, also when a line or a stored last  *)
(* line of another date does not parse.                                    *)
(* Violated: the exception of one partition leaves store_lines, and the    *)
(* partitions after it are not processed.                                  *)
(***************************************************************************)
LinesOfDate(D) == SelectSeq(last.lines, LAMBDA l : date_string_of(l[1]) = D)

C15_PartitionsIndependent ==
    IsStoreCall =>
        \A D \in LastDates :
            files[<< last.hotkey, D >>]
              = store_lines(last.before, last.hotkey, LinesOfDate(D)).files[<< last.hotkey, D >>]

OutOfOrder(ls) ==
    \E i, j \in 1..Len(ls) :
        i < j /\ strptime(ls[j][1]) >= 0 /\ strptime(ls[j][1]) < strptime(ls[i][1])

OutsideLast(k) == k[1] # last.hotkey \/ k[2] \notin LastDates

C18_TouchesOnlyItsFiles ==
    IsStoreCall =>
        \A k \in FileKeys : OutsideLast(k) => files[k] = last.before[k]

C18_Witness ==
    /\ IsStoreCall
    /\ \E k, j \in FileKeys :
         /\ ~OutsideLast(k)
         /\ files[k] # last.before[k]
         /\ j[1] # last.hotkey
         /\ j[2] = k[2]
         /\ files[j].text # << >>
         /\ files[j] = last.before[j]

C18_EmptyBatchWitness ==
    /\ IsStoreCall
    /\ last.lines = << >>
    /\ \E k \in FileKeys : files[k].text # << >>

(***************************************************************************)
(* C14, as stated: when every batch passed to store_lines is in            *)
(* non-decreasing timestamp order, every log file is in non-decreasing     *)
(* timestamp order; and when the batches are windows of one stream with    *)
(* strictly increasing timestamps, each file holds each delivered line of  *)
(* its date exactly once.                                                  *)
(* Violated: a window that reaches further back than the one before it     *)
(* delivers a line that is older than the last stored line; it is skipped. *)
(***************************************************************************)
SortedBatch(b) ==
    /\ \A i \in 1..Len(b) : strptime(b[i][1]) >= 0
    /\ NonDecreasing([i \in 1..Len(b) |-> strptime(b[i][1])])

IsWindow(b) ==
    \E lo \in 1..(Len(StreamLines) + 1), hi \in 0..Len(StreamLines) :
        b = SubSeq(StreamLines, lo, hi)

StreamIndex(line) == CHOOSE i \in 1..Len(StreamLines) : StreamLines[i] = line

\* The lines delivered by the calls so far.
Delivered == UNION { { calls[c][i] : i \in 1..Len(calls[c]) } : c \in 1..Len(calls) }

\* How many times a line is in the file of its date.
TimesStored(line) ==
    LET stored == lines_of(files[<< "hk1", DateOf(line) >>].text)
    IN  Cardinality({ i \in 1..Len(stored) :
                        stored[i] = format_line(line[1], normalize(line[2])) })

AllSorted == \A c \in 1..Len(calls) : SortedBatch(calls[c])

AllWindows == \A c \in 1..Len(calls) : IsWindow(calls[c])

\* Each window shares a line with the window before it.
Overlapping ==
    \A c \in 1..(Len(calls) - 1) :
        \E i \in 1..Len(calls[c]), j \in 1..Len(calls[c + 1]) :
            calls[c][i] = calls[c + 1][j]

C14_SortedBatchesKeepOrderAndWindowsStoreOnce ==
    /\ AllSorted => \A k \in FileKeys : NonDecreasing(Instants(files[k].text))
    /\ (AllWindows /\ Overlapping) => \A line \in Delivered : TimesStored(line) = 1

(***************************************************************************)
(* C14, amended: the second part holds for windows that never move back,   *)
(* overlapping or not: neither the first nor the last line of a window is  *)
(* older than that of a window delivered before it.                        *)
(***************************************************************************)
MovingForward ==
    \A c, d \in 1..Len(calls) :
        (c < d /\ calls[c] # << >> /\ calls[d] # << >>) =>
            /\ StreamIndex(calls[c][1]) <= StreamIndex(calls[d][1])
            /\ StreamIndex(calls[c][Len(calls[c])]) <= StreamIndex(calls[d][Len(calls[d])])

C14_ForwardWindowsStoreOnce ==
    /\ AllSorted => \A k \in FileKeys : NonDecreasing(Instants(files[k].text))
    /\ (AllWindows /\ MovingForward) => \A line \in Delivered : TimesStored(line) = 1

\* Two overlapping windows, the second of which brings a line of a new date.
C14_Witness ==
    /\ Len(calls) = 2
    /\ AllWindows /\ MovingForward
    /\ Len(calls[1]) = 2 /\ Len(calls[2]) = 2
    /\ calls[1][2] = calls[2][1]
    /\ \A line \in Delivered : TimesStored(line) = 1
    /\ Cardinality(Delivered) = 3

(***************************************************************************)
(* The polling driver with a remote job that keeps producing lines: each   *)
(* fetch asks for the most recent WindowSize lines of what the job has     *)
(* produced so far.                                                        *)
(***************************************************************************)
\* Line 74, logLines(last: 10000), scaled down.
WindowSize == 2

\* Mutant of get_logs: the query asks for the newest line only.
get_logs_newest_only(produced) ==
    IF produced = 0 THEN << >> ELSE << RemoteStream[produced] >>

\* get_logs, lines 65-85, for a job that has produced its first `produced`
\* lines: the most recent WindowSize of them, oldest first.
get_logs(produced) ==
    SubSeq(RemoteStream,
           IF produced > WindowSize THEN produced - WindowSize + 1 ELSE 1,
           produced)

RemoteJob == [id |-> "r1", hotkey |-> "hk1"]

\* The positions in the stream of the lines of a response.
IndicesOf(logs) == { i \in 1..Len(RemoteStream) : \E j \in 1..Len(logs) : logs[j] = RemoteStream[i] }

\* The line at a position of the stream is in the file of its date.
Stored(fs, i) ==
    format_line(StreamLines[i][1], normalize(StreamLines[i][2]))
        \in LinesIn(fs[<< hotkey_of(RemoteJob), DateOf(StreamLines[i]) >>].text)

\* The remote job logs one more line.
Produce ==
    /\ remote.produced < Len(RemoteStream)
    /\ remote' = [remote EXCEPT !.produced = @ + 1]
    /\ UNCHANGED << store_vars, driver_vars, calls >>

\* execute, lines 150-158: get_logs raises; the lines it would have
\* delivered that are not in the store are missed.
PollFails ==
    /\ pc = "processing"
    /\ next_run <= Len(runs)
    /\ attempts' = Append(attempts, [id |-> runs[next_run].id, outcome |-> "fetch_failed"])
    /\ next_run' = next_run + 1
    /\ remote' = [remote EXCEPT
                    !.missed = @ \cup { i \in IndicesOf(get_logs(remote.produced)) :
                                          ~Stored(files, i) }]
    /\ UNCHANGED << pc, runs, written, cycle_log, store_vars, calls >>

\* execute, lines 150-158: get_logs returns the window and store_logs merges
\* it into the files of the job's hotkey.
PollStores ==
    /\ pc = "processing"
    /\ next_run <= Len(runs)
    /\ \E logs \in { get_logs(remote.produced) } :
       LET run    == runs[next_run]
           hotkey == hotkey_of(run)
           res    == store_logs(files, hotkey, logs)
       IN  /\ files' = res.files
           /\ last' = [op |-> "store_lines", hotkey |-> hotkey, date |-> << >>,
                       lines |-> [k \in 1..Len(logs) |-> get_log_ts_and_content(logs[k])],
                       before |-> files, raised |-> res.raised]
           /\ attempts' = Append(attempts,
                  [id |-> run.id,
                   outcome |-> IF res.raised THEN "store_failed" ELSE "stored"])
           /\ written' = written \cup { << run.id, k >> : k \in Changed(files, res.files) }
           /\ remote' = [remote EXCEPT
                           !.recovered = remote.missed \cap IndicesOf(logs),
                           !.missed = remote.missed \ IndicesOf(logs)]
    /\ next_run' = next_run + 1
    /\ UNCHANGED << pc, runs, ncalls, cycle_log, calls >>

NextPoll ==
    \/ StartCycle
    \/ GetRuns(<< RemoteJob >>)
    \/ GetRunsFails
    \/ PollFails
    \/ PollStores
    \/ FinishCycle

NextRemote == Produce \/ NextPoll

SpecRemote == Init /\ [][NextRemote]_vars

\* The driver is one sequential thread: as long as the remote calls and the
\* sleep return, it takes its next step.
FairSpecRemote == SpecRemote /\ WF_vars(NextPoll)

(***************************************************************************)
(* C17: a failed fetch leaves the files unchanged; when a later fetch      *)
(* delivers lines that a failed fetch missed, those beyond the high-water  *)
(* mark of their file are appended by that fetch, and all of them are in   *)
(* their file after it; under fair retry (the fetch succeeds again and     *)
(* again) the store eventually holds every line of the remote window.      *)
(***************************************************************************)
\* The last attempt of the cycle fetched and stored.
JustStored ==
    /\ attempts # << >>
    /\ attempts[Len(attempts)].outcome = "stored"

WindowIndices ==
    (IF remote.produced > WindowSize THEN remote.produced - WindowSize + 1 ELSE 1)
        .. remote.produced

CaughtUp == \A i \in WindowIndices : Stored(files, i)

RecoveredAreAppended ==
    (IsStoreCall /\ ~last.raised) =>
        \A i \in remote.recovered :
            LET line == << StreamLines[i][1], normalize(StreamLines[i][2]) >>
            IN  /\ Present(line)
                /\ Beyond(line, MarkBefore(line)) =>
                      format_line(line[1], line[2])
                          \in LinesIn(Appended(<< last.hotkey, DateOf(line) >>))

====
